---- MODULE Spec2Model ----
(***************************************************************************)
(* Model of the query service of strapi-plugin-sitemap                     *)
(* (server/services/query.js).                                             *)
(*                                                                         *)
(* Two parts share the module:                                             *)
(*  - the persistence operations (createSitemap, getSitemap,               *)
(*    deleteSitemap, createSitemapCache, updateSitemapCache,               *)
(*    getSitemapCache): asynchronous handlers over the entity service.     *)
(*    Each handler is a process whose position advances by one step per    *)
(*    awaited store call; between two awaits a handler runs atomically     *)
(*    (single-threaded event loop), handlers interleave at the awaits.     *)
(*  - the pure aggregation (getFieldsFromConfig, getRelationsFromConfig)   *)
(*    and the query assembly of getPages, modelled as operators and        *)
(*    applied by actions to inputs drawn in the initial state.             *)
(***************************************************************************)
EXTENDS Integers, Sequences, FiniteSets, TLC

(***************************************************************************)
(* Bounds of the model.                                                    *)
(***************************************************************************)
\* total number of persistence calls started in one behaviour
MaxCalls == 2
\* total number of placeholders over all the patterns of one config
MaxTokens == 2

Procs == {"p1", "p2"}
Names == {"a", "b"}
Deltas == {0, 1}
Docs == {"s1", "s2"}

VARIABLES
  sitemaps,     \* table plugin::sitemap.sitemap: records id, name, delta, sitemap_string
  caches,       \* table plugin::sitemap.sitemap-cache: records id, name, sitemap_json
  sitemapSeq,   \* last id handed out by the sitemap table
  cacheSeq,     \* last id handed out by the sitemap-cache table
  proc,         \* per process: the handler it runs, its position and its locals
  calls,        \* number of persistence calls started so far
  serial,       \* TRUE when the caller starts a call only after the previous one settled
  oneWriter     \* TRUE when the caller starts a writing call only while no other one runs

storeVars == <<sitemaps, caches, sitemapSeq, cacheSeq, proc, calls, serial, oneWriter>>

VARIABLES
  contentTypeConfig,  \* config.contentTypes[contentType]: the type's languages and patterns
  out                 \* the last call of the aggregation or of getPages: arguments and outcome

queryVars == <<contentTypeConfig, out>>

(***************************************************************************)
(* The entity service, as the handlers use it.                             *)
(***************************************************************************)
\* findMany('plugin::sitemap.sitemap', {filters: {name, delta}})
FindSitemaps(n, d) == {r \in sitemaps : r.name = n /\ r.delta = d}

\* findMany('plugin::sitemap.sitemap', {filters: {name}})
FindSitemapsByName(n) == {r \in sitemaps : r.name = n}

\* findMany('plugin::sitemap.sitemap-cache', {filters: {name}})
FindCaches(n) == {r \in caches : r.name = n}

\* delete(uid, id): removes the record with that id, none when it is gone already
DeleteById(table, id) == {r \in table : r.id # id}

\* fields: ['id']
Ids(records) == {r.id : r \in records}

Idle ==
  [op |-> "none", pc |-> "idle", name |-> "", delta |-> 0, data |-> "",
   found |-> {}, pending |-> {}, result |-> {}, error |-> {}, log |-> <<>>]

Entry(call, table, ids) == [call |-> call, table |-> table, ids |-> ids, ok |-> TRUE]

\* the store call of a handler that threw: the error is told by the call that raised it
Thrown(call, table, ids) == [call |-> call, table |-> table, ids |-> ids, ok |-> FALSE]

\* the process's record with some fields changed and one store call logged
Logged(p, e) == [proc[p] EXCEPT !.log = Append(@, e)]

\* a call may start on an idle process, the second process being taken only
\* while the first is busy; under the serial discipline a call starts only when
\* no other call is in flight
CanStart(p) ==
  /\ proc[p].pc = "idle"
  /\ calls < MaxCalls
  /\ serial => \A q \in Procs : proc[q].pc = "idle"
  /\ p = "p2" => proc["p1"].pc # "idle"

\* the handlers that write to the store
Writers == {"createSitemap", "deleteSitemap", "createSitemapCache", "updateSitemapCache"}

\* under the one-writer discipline a writing call starts only when the other
\* process runs no writing call; reading calls start as they like
WriterCanStart(p) ==
  /\ CanStart(p)
  /\ oneWriter => \A q \in Procs \ {p} : proc[q].op \notin Writers

\* the handler is entered: its first store call, the lookup, is issued
Called(o, n, d, s) ==
  [Idle EXCEPT !.op = o, !.pc = "findMany", !.name = n, !.delta = d, !.data = s]

(***************************************************************************)
(* createSitemap(sitemapString, name, delta)                               *)
(***************************************************************************)
createSitemap(p, s, n, d) ==
  /\ WriterCanStart(p)
  /\ proc' = [proc EXCEPT ![p] = Called("createSitemap", n, d, s)]
  /\ calls' = calls + 1
  /\ UNCHANGED <<sitemaps, caches, sitemapSeq, cacheSeq, serial, oneWriter, queryVars>>

\* faulty variant: the stale record is looked up but never deleted
createSitemap_findMany_noDelete(p) ==
  /\ proc[p].op = "createSitemap" /\ proc[p].pc = "findMany"
  /\ LET hits == Ids(FindSitemaps(proc[p].name, proc[p].delta))
     IN proc' = [proc EXCEPT ![p] =
                   [Logged(p, Entry("findMany", "sitemap", hits)) EXCEPT !.pc = "create"]]
  /\ UNCHANGED <<sitemaps, caches, sitemapSeq, cacheSeq, calls, serial, oneWriter, queryVars>>

\* faulty variant: the stale record is looked up by name alone
createSitemap_findMany_byName(p) ==
  /\ proc[p].op = "createSitemap" /\ proc[p].pc = "findMany"
  /\ LET hits == Ids(FindSitemapsByName(proc[p].name))
         e == Entry("findMany", "sitemap", hits)
     IN \/ /\ hits = {}
           /\ proc' = [proc EXCEPT ![p] = [Logged(p, e) EXCEPT !.pc = "create"]]
        \/ \E id \in hits :
             proc' = [proc EXCEPT ![p] =
                        [Logged(p, e) EXCEPT !.found = {id}, !.pc = "delete"]]
  /\ UNCHANGED <<sitemaps, caches, sitemapSeq, cacheSeq, calls, serial, oneWriter, queryVars>>

\* const sitemap = await findMany(...); sitemap[0] is any of the matching
\* records when the store returns several (no sort is requested)
createSitemap_findMany(p) ==
  /\ proc[p].op = "createSitemap" /\ proc[p].pc = "findMany"
  /\ LET hits == Ids(FindSitemaps(proc[p].name, proc[p].delta))
         e == Entry("findMany", "sitemap", hits)
     IN \/ /\ hits = {}
           /\ proc' = [proc EXCEPT ![p] = [Logged(p, e) EXCEPT !.pc = "create"]]
        \/ \E id \in hits :
             proc' = [proc EXCEPT ![p] =
                        [Logged(p, e) EXCEPT !.found = {id}, !.pc = "delete"]]
  /\ UNCHANGED <<sitemaps, caches, sitemapSeq, cacheSeq, calls, serial, oneWriter, queryVars>>

\* await delete('plugin::sitemap.sitemap', sitemap[0].id)
createSitemap_delete(p) ==
  /\ proc[p].op = "createSitemap" /\ proc[p].pc = "delete"
  /\ \E id \in proc[p].found :
       /\ sitemaps' = DeleteById(sitemaps, id)
       /\ proc' = [proc EXCEPT ![p] =
                     [Logged(p, Entry("delete", "sitemap", {id})) EXCEPT !.pc = "create"]]
  /\ UNCHANGED <<caches, sitemapSeq, cacheSeq, calls, serial, oneWriter, queryVars>>

\* await create('plugin::sitemap.sitemap', {data: {sitemap_string, name, delta}})
createSitemap_create(p) ==
  /\ proc[p].op = "createSitemap" /\ proc[p].pc = "create"
  /\ sitemapSeq' = sitemapSeq + 1
  /\ sitemaps' = sitemaps \cup
       {[id |-> sitemapSeq + 1, name |-> proc[p].name, delta |-> proc[p].delta,
         sitemap_string |-> proc[p].data]}
  /\ proc' = [proc EXCEPT ![p] =
                [Logged(p, Entry("create", "sitemap", {sitemapSeq + 1})) EXCEPT !.pc = "done"]]
  /\ UNCHANGED <<caches, cacheSeq, calls, serial, oneWriter, queryVars>>

(***************************************************************************)
(* getSitemap(name, delta)                                                 *)
(***************************************************************************)
getSitemap(p, n, d) ==
  /\ CanStart(p)
  /\ proc' = [proc EXCEPT ![p] = Called("getSitemap", n, d, "")]
  /\ calls' = calls + 1
  /\ UNCHANGED <<sitemaps, caches, sitemapSeq, cacheSeq, serial, oneWriter, queryVars>>

\* faulty variant: the second matching record is returned, none when only one matches
getSitemap_findMany_second(p) ==
  /\ proc[p].op = "getSitemap" /\ proc[p].pc = "findMany"
  /\ LET hits == FindSitemaps(proc[p].name, proc[p].delta)
         e == Entry("findMany", "sitemap", Ids(hits))
     IN \/ /\ Cardinality(hits) < 2
           /\ proc' = [proc EXCEPT ![p] = [Logged(p, e) EXCEPT !.pc = "done"]]
        \/ /\ Cardinality(hits) >= 2
           /\ \E r \in hits :
                proc' = [proc EXCEPT ![p] =
                           [Logged(p, e) EXCEPT !.result = {r}, !.pc = "done"]]
  /\ UNCHANGED <<sitemaps, caches, sitemapSeq, cacheSeq, calls, serial, oneWriter, queryVars>>

\* return sitemap[0]: a matching record, or undefined (the empty result)
getSitemap_findMany(p) ==
  /\ proc[p].op = "getSitemap" /\ proc[p].pc = "findMany"
  /\ LET hits == FindSitemaps(proc[p].name, proc[p].delta)
         e == Entry("findMany", "sitemap", Ids(hits))
     IN \/ /\ hits = {}
           /\ proc' = [proc EXCEPT ![p] = [Logged(p, e) EXCEPT !.pc = "done"]]
        \/ \E r \in hits :
             proc' = [proc EXCEPT ![p] =
                        [Logged(p, e) EXCEPT !.result = {r}, !.pc = "done"]]
  /\ UNCHANGED <<sitemaps, caches, sitemapSeq, cacheSeq, calls, serial, oneWriter, queryVars>>

(***************************************************************************)
(* deleteSitemap(name)                                                     *)
(***************************************************************************)
deleteSitemap(p, n) ==
  /\ WriterCanStart(p)
  /\ proc' = [proc EXCEPT ![p] = Called("deleteSitemap", n, 0, "")]
  /\ calls' = calls + 1
  /\ UNCHANGED <<sitemaps, caches, sitemapSeq, cacheSeq, serial, oneWriter, queryVars>>

\* const sitemaps = await findMany(...); then every delete is issued at once
\* (sitemaps.map(async ...)) and Promise.all waits for them
deleteSitemap_findMany(p) ==
  /\ proc[p].op = "deleteSitemap" /\ proc[p].pc = "findMany"
  /\ LET hits == Ids(FindSitemapsByName(proc[p].name))
     IN proc' = [proc EXCEPT ![p] =
                   [Logged(p, Entry("findMany", "sitemap", hits))
                      EXCEPT !.found = hits, !.pending = hits, !.pc = "deleteAll"]]
  /\ UNCHANGED <<sitemaps, caches, sitemapSeq, cacheSeq, calls, serial, oneWriter, queryVars>>

\* one of the deletes in flight completes; they complete in any order, and
\* keep completing after Promise.all has rejected
deleteSitemap_delete(p, id) ==
  /\ proc[p].op = "deleteSitemap" /\ proc[p].pc \in {"deleteAll", "failed"}
  /\ id \in proc[p].pending
  /\ sitemaps' = DeleteById(sitemaps, id)
  /\ proc' = [proc EXCEPT ![p] =
                [Logged(p, Entry("delete", "sitemap", {id})) EXCEPT !.pending = @ \ {id}]]
  /\ UNCHANGED <<caches, sitemapSeq, cacheSeq, calls, serial, oneWriter, queryVars>>

\* faulty variant: the deletes are issued and not awaited
deleteSitemap_all_noWait(p) ==
  /\ proc[p].op = "deleteSitemap" /\ proc[p].pc = "deleteAll"
  /\ proc' = [proc EXCEPT ![p].pc = "done"]
  /\ UNCHANGED <<sitemaps, caches, sitemapSeq, cacheSeq, calls, serial, oneWriter, queryVars>>

\* Promise.all resolves once every delete has completed
deleteSitemap_all(p) ==
  /\ proc[p].op = "deleteSitemap" /\ proc[p].pc = "deleteAll"
  /\ proc[p].pending = {}
  /\ proc' = [proc EXCEPT ![p].pc = "done"]
  /\ UNCHANGED <<sitemaps, caches, sitemapSeq, cacheSeq, calls, serial, oneWriter, queryVars>>

(***************************************************************************)
(* createSitemapCache(sitemapJson, name)                                   *)
(***************************************************************************)
createSitemapCache(p, s, n) ==
  /\ WriterCanStart(p)
  /\ proc' = [proc EXCEPT ![p] = Called("createSitemapCache", n, 0, s)]
  /\ calls' = calls + 1
  /\ UNCHANGED <<sitemaps, caches, sitemapSeq, cacheSeq, serial, oneWriter, queryVars>>

createSitemapCache_findMany(p) ==
  /\ proc[p].op = "createSitemapCache" /\ proc[p].pc = "findMany"
  /\ LET hits == Ids(FindCaches(proc[p].name))
         e == Entry("findMany", "cache", hits)
     IN \/ /\ hits = {}
           /\ proc' = [proc EXCEPT ![p] = [Logged(p, e) EXCEPT !.pc = "create"]]
        \/ \E id \in hits :
             proc' = [proc EXCEPT ![p] =
                        [Logged(p, e) EXCEPT !.found = {id}, !.pc = "delete"]]
  /\ UNCHANGED <<sitemaps, caches, sitemapSeq, cacheSeq, calls, serial, oneWriter, queryVars>>

\* faulty variant: the delete goes to the sitemap table instead of the cache table
createSitemapCache_delete_wrongTable(p) ==
  /\ proc[p].op = "createSitemapCache" /\ proc[p].pc = "delete"
  /\ \E id \in proc[p].found :
       /\ sitemaps' = DeleteById(sitemaps, id)
       /\ proc' = [proc EXCEPT ![p] =
                     [Logged(p, Entry("delete", "cache", {id})) EXCEPT !.pc = "create"]]
  /\ UNCHANGED <<caches, sitemapSeq, cacheSeq, calls, serial, oneWriter, queryVars>>

createSitemapCache_delete(p) ==
  /\ proc[p].op = "createSitemapCache" /\ proc[p].pc = "delete"
  /\ \E id \in proc[p].found :
       /\ caches' = DeleteById(caches, id)
       /\ proc' = [proc EXCEPT ![p] =
                     [Logged(p, Entry("delete", "cache", {id})) EXCEPT !.pc = "create"]]
  /\ UNCHANGED <<sitemaps, sitemapSeq, cacheSeq, calls, serial, oneWriter, queryVars>>

createSitemapCache_create(p) ==
  /\ proc[p].op = "createSitemapCache" /\ proc[p].pc = "create"
  /\ cacheSeq' = cacheSeq + 1
  /\ caches' = caches \cup
       {[id |-> cacheSeq + 1, name |-> proc[p].name, sitemap_json |-> proc[p].data]}
  /\ proc' = [proc EXCEPT ![p] =
                [Logged(p, Entry("create", "cache", {cacheSeq + 1})) EXCEPT !.pc = "done"]]
  /\ UNCHANGED <<sitemaps, sitemapSeq, calls, serial, oneWriter, queryVars>>

(***************************************************************************)
(* updateSitemapCache(sitemapJson, name)                                   *)
(***************************************************************************)
updateSitemapCache(p, s, n) ==
  /\ WriterCanStart(p)
  /\ proc' = [proc EXCEPT ![p] = Called("updateSitemapCache", n, 0, s)]
  /\ calls' = calls + 1
  /\ UNCHANGED <<sitemaps, caches, sitemapSeq, cacheSeq, serial, oneWriter, queryVars>>

updateSitemapCache_findMany(p) ==
  /\ proc[p].op = "updateSitemapCache" /\ proc[p].pc = "findMany"
  /\ LET hits == Ids(FindCaches(proc[p].name))
         e == Entry("findMany", "cache", hits)
     IN \/ /\ hits = {}
           /\ proc' = [proc EXCEPT ![p] = [Logged(p, e) EXCEPT !.pc = "done"]]
        \/ \E id \in hits :
             proc' = [proc EXCEPT ![p] =
                        [Logged(p, e) EXCEPT !.found = {id}, !.pc = "update"]]
  /\ UNCHANGED <<sitemaps, caches, sitemapSeq, cacheSeq, calls, serial, oneWriter, queryVars>>

\* faulty variant: the record is rewritten by deleting it and creating a new one
updateSitemapCache_update_recreate(p) ==
  /\ proc[p].op = "updateSitemapCache" /\ proc[p].pc = "update"
  /\ \E id \in proc[p].found :
       /\ caches' = DeleteById(caches, id) \cup
            {[id |-> cacheSeq + 1, name |-> proc[p].name, sitemap_json |-> proc[p].data]}
       /\ proc' = [proc EXCEPT ![p] =
                     [Logged(p, Entry("update", "cache", {id})) EXCEPT !.pc = "done"]]
  /\ cacheSeq' = cacheSeq + 1
  /\ UNCHANGED <<sitemaps, sitemapSeq, calls, serial, oneWriter, queryVars>>

\* await update(uid, sitemap[0].id, {data: {sitemap_json, name}}): rewrites the
\* record with that id, none when it is gone already
updateSitemapCache_update(p) ==
  /\ proc[p].op = "updateSitemapCache" /\ proc[p].pc = "update"
  /\ \E id \in proc[p].found :
       /\ caches' = {IF r.id = id
                       THEN [r EXCEPT !.sitemap_json = proc[p].data, !.name = proc[p].name]
                       ELSE r : r \in caches}
       /\ proc' = [proc EXCEPT ![p] =
                     [Logged(p, Entry("update", "cache", {id})) EXCEPT !.pc = "done"]]
  /\ UNCHANGED <<sitemaps, sitemapSeq, cacheSeq, calls, serial, oneWriter, queryVars>>

(***************************************************************************)
(* getSitemapCache(name)                                                   *)
(***************************************************************************)
getSitemapCache(p, n) ==
  /\ CanStart(p)
  /\ proc' = [proc EXCEPT ![p] = Called("getSitemapCache", n, 0, "")]
  /\ calls' = calls + 1
  /\ UNCHANGED <<sitemaps, caches, sitemapSeq, cacheSeq, serial, oneWriter, queryVars>>

getSitemapCache_findMany(p) ==
  /\ proc[p].op = "getSitemapCache" /\ proc[p].pc = "findMany"
  /\ LET hits == FindCaches(proc[p].name)
         e == Entry("findMany", "cache", Ids(hits))
     IN \/ /\ hits = {}
           /\ proc' = [proc EXCEPT ![p] = [Logged(p, e) EXCEPT !.pc = "done"]]
        \/ \E r \in hits :
             proc' = [proc EXCEPT ![p] =
                        [Logged(p, e) EXCEPT !.result = {r}, !.pc = "done"]]
  /\ UNCHANGED <<sitemaps, caches, sitemapSeq, cacheSeq, calls, serial, oneWriter, queryVars>>

\* faulty variant: the call that threw is issued again instead of failing the handler
StoreError_retry(p) ==
  /\ proc[p].pc \in {"findMany", "delete", "create", "update"}
  /\ Len(proc[p].log) < 3
  /\ LET thrown == Thrown(proc[p].pc, "any", proc[p].found)
     IN proc' = [proc EXCEPT ![p] = [Logged(p, thrown) EXCEPT !.error = {thrown}]]
  /\ UNCHANGED <<sitemaps, caches, sitemapSeq, cacheSeq, calls, serial, oneWriter, queryVars>>

(***************************************************************************)
(* The store rejecting an awaited call, and the caller taking the outcome. *)
(***************************************************************************)
\* the awaited store call throws: no handler has a try/catch, so the handler
\* ends there with that error and the store is left as it was
StoreError(p) ==
  /\ proc[p].pc \in {"findMany", "delete", "create", "update"}
  /\ LET thrown == Thrown(proc[p].pc, "any", proc[p].found)
     IN proc' = [proc EXCEPT ![p] =
                   [Logged(p, thrown) EXCEPT !.pc = "failed", !.error = {thrown}]]
  /\ UNCHANGED <<sitemaps, caches, sitemapSeq, cacheSeq, calls, serial, oneWriter, queryVars>>

\* one of the deletes of deleteSitemap throws: Promise.all rejects at once, with
\* the error of the first delete that threw; a later one is swallowed
deleteSitemap_reject(p, id) ==
  /\ proc[p].op = "deleteSitemap" /\ proc[p].pc \in {"deleteAll", "failed"}
  /\ id \in proc[p].pending
  /\ LET thrown == Thrown("delete", "sitemap", {id})
     IN proc' = [proc EXCEPT ![p] =
                   [Logged(p, thrown) EXCEPT !.pending = @ \ {id}, !.pc = "failed",
                                             !.error = IF @ = {} THEN {thrown} ELSE @]]
  /\ UNCHANGED <<sitemaps, caches, sitemapSeq, cacheSeq, calls, serial, oneWriter, queryVars>>

\* the settled call is taken by its caller and nothing of it is in flight
Return(p) ==
  /\ proc[p].pc \in {"done", "failed"}
  /\ proc[p].pending = {}
  /\ proc' = [proc EXCEPT ![p] = Idle]
  /\ UNCHANGED <<sitemaps, caches, sitemapSeq, cacheSeq, calls, serial, oneWriter, queryVars>>

(***************************************************************************)
(* Patterns.  A pattern is held as the list of its bracketed placeholders  *)
(* in order of appearance, each placeholder as the list of its dotted      *)
(* segments: "/a/[title]/[category.name]" is                               *)
(* <<<<"title">>, <<"category", "name">>>>.  A placeholder with an empty   *)
(* segment ("[category.]", a relation with no sub-field) is malformed.     *)
(***************************************************************************)
Tokens ==
  {<<"title">>, <<"updatedAt">>, <<"locale">>,
   <<"category", "name">>, <<"category", "author", "name">>,
   <<"localizations", "name">>, <<"category", "">>}

RelationNames == {"category", "localizations", "author"}

\* the relation argument left out (undefined)
NoRelation == ""

\* a JavaScript flag read from an object: missing, false or true
JSFlag == {"undefined", "false", "true"}

\* the excludeDrafts setting of the plugin's config
ExcludeDraftsSettings == {"false", "true"}
Truthy(v) == v = "true"

\* outcomes of a call: a returned value, or a raised error
Returned(v) == [raised |-> FALSE, error |-> "", value |-> v]
Raised(e) == [raised |-> TRUE, error |-> e, value |-> <<>>]

RECURSIVE Join(_)
\* segments.join('.')
Join(segs) ==
  IF Len(segs) = 1 THEN segs[1] ELSE segs[1] \o "." \o Join(Tail(segs))

RECURSIVE Dedupe(_)
\* [...new Set(fields)]: every value once, in order of first appearance
Dedupe(fields) ==
  IF fields = <<>> THEN <<>>
  ELSE LET init == Dedupe(SubSeq(fields, 1, Len(fields) - 1))
           last == fields[Len(fields)]
       IN IF \E i \in 1..Len(init) : init[i] = last THEN init ELSE Append(init, last)

RECURSIVE Flatten(_)
\* the concatenation of a list of lists
Flatten(lists) ==
  IF lists = <<>> THEN <<>> ELSE Head(lists) \o Flatten(Tail(lists))

IsMalformed(token) == token = <<>> \/ \E i \in 1..Len(token) : token[i] = ""

\* the fields one placeholder contributes (none, or one)
FieldsOfToken(token, topLevel, relation) ==
  IF Len(token) = 1
    THEN IF relation = NoRelation THEN <<token[1]>> ELSE <<>>
    ELSE IF relation # NoRelation
           THEN IF token[1] = relation THEN <<Join(Tail(token))>> ELSE <<>>
           ELSE IF topLevel THEN <<>> ELSE <<Join(token)>>

\* getService('pattern').getFieldsFromPattern(pattern, topLevel, relation)
getFieldsFromPattern(pattern, topLevel, relation) ==
  IF \E i \in 1..Len(pattern) : IsMalformed(pattern[i])
    THEN Raised("PatternSyntaxError")
    ELSE Returned(Dedupe(Flatten(
           [i \in 1..Len(pattern) |-> FieldsOfToken(pattern[i], topLevel, relation)])))

\* getService('pattern').getRelationsFromPattern(pattern)
getRelationsFromPattern(pattern) ==
  IF \E i \in 1..Len(pattern) : IsMalformed(pattern[i])
    THEN Raised("PatternSyntaxError")
    ELSE Returned(Dedupe(Flatten(
           [i \in 1..Len(pattern) |->
              IF Len(pattern[i]) > 1 THEN <<pattern[i][1]>> ELSE <<>>])))

(***************************************************************************)
(* getFieldsFromConfig(contentType, topLevel, isLocalized, relation)       *)
(***************************************************************************)
\* Object.entries(contentType['languages']).map(...): the extractor's outcome
\* for each language, in the order of the entries
ExtractedPerLanguage(contentType, topLevel, relation) ==
  [i \in 1..Len(contentType.languages) |->
     getFieldsFromPattern(contentType.languages[i].pattern, topLevel, relation)]

\* faulty variant: the metadata fields are pushed whatever topLevel is
MetadataFields_always(topLevel, isLocalized) ==
  (IF isLocalized THEN <<"locale">> ELSE <<>>) \o <<"updatedAt">>

\* if (topLevel) { if (isLocalized) push 'locale'; push 'updatedAt' }
MetadataFields(topLevel, isLocalized) ==
  IF topLevel
    THEN (IF isLocalized THEN <<"locale">> ELSE <<>>) \o <<"updatedAt">>
    ELSE <<>>

\* faulty variant: the duplicates are kept
RemoveDuplicates_none(fields) == fields

\* fields = [...new Set(fields)]
RemoveDuplicates(fields) == Dedupe(fields)

\* faulty variant: the languages are read without the "if (contentType)" guard
getFieldsFromConfig_noGuard(contentType, topLevel, isLocalized, relation) ==
  LET extracted == ExtractedPerLanguage(contentType, topLevel, relation)
      pushed == Flatten([i \in 1..Len(extracted) |-> extracted[i].value])
  IN IF ~contentType.present
       THEN Raised("TypeError")
       ELSE IF \E i \in 1..Len(extracted) : extracted[i].raised
              THEN Raised("PatternSyntaxError")
              ELSE Returned(RemoveDuplicates(pushed \o MetadataFields(topLevel, isLocalized)))

getFieldsFromConfig(contentType, topLevel, isLocalized, relation) ==
  LET extracted ==
        IF contentType.present
          THEN ExtractedPerLanguage(contentType, topLevel, relation)
          ELSE <<>>
      pushed == Flatten([i \in 1..Len(extracted) |-> extracted[i].value])
  IN IF \E i \in 1..Len(extracted) : extracted[i].raised
       THEN Raised("PatternSyntaxError")
       ELSE Returned(RemoveDuplicates(pushed \o MetadataFields(topLevel, isLocalized)))

(***************************************************************************)
(* getRelationsFromConfig(contentType)                                     *)
(***************************************************************************)
\* faulty variant: the relation's fields are taken from the first language only
AssignRelation_firstLanguage(relationsObject, contentType, relation) ==
  LET fields == getFieldsFromConfig(
                  [contentType EXCEPT !.languages = SubSeq(@, 1, 1)], FALSE, FALSE, relation)
  IN IF fields.raised
       THEN fields
       ELSE Returned([k \in DOMAIN relationsObject \cup {relation} |->
                        IF k = relation THEN [fields |-> fields.value]
                                        ELSE relationsObject[k]])

\* relationsObject[relation] = {fields: getFieldsFromConfig(contentType, false, false, relation)}
AssignRelation(relationsObject, contentType, relation) ==
  LET fields == getFieldsFromConfig(contentType, FALSE, FALSE, relation)
  IN IF fields.raised
       THEN fields
       ELSE Returned([k \in DOMAIN relationsObject \cup {relation} |->
                        IF k = relation THEN [fields |-> fields.value]
                                        ELSE relationsObject[k]])

RECURSIVE AssignRelations(_, _, _)
\* relations.map((relation) => ...): one language's relations, in order
AssignRelations(relationsObject, contentType, relations) ==
  IF relations = <<>> THEN Returned(relationsObject)
  ELSE LET first == AssignRelation(relationsObject, contentType, Head(relations))
       IN IF first.raised THEN first
          ELSE AssignRelations(first.value, contentType, Tail(relations))

\* faulty variant: only the first language's pattern is searched for relations
RelationsFromLanguage_firstOnly(relationsObject, contentType, i) ==
  IF contentType.languages = <<>> THEN Returned(relationsObject)
  ELSE LET relations == getRelationsFromPattern(contentType.languages[1].pattern)
       IN IF relations.raised THEN relations
          ELSE AssignRelations(relationsObject, contentType, relations.value)

RECURSIVE RelationsFromLanguage(_, _, _)
\* Object.entries(contentType['languages']).map(...), from the i-th entry on
RelationsFromLanguage(relationsObject, contentType, i) ==
  IF i > Len(contentType.languages) THEN Returned(relationsObject)
  ELSE LET relations == getRelationsFromPattern(contentType.languages[i].pattern)
       IN IF relations.raised THEN relations
          ELSE LET assigned == AssignRelations(relationsObject, contentType, relations.value)
               IN IF assigned.raised THEN assigned
                  ELSE RelationsFromLanguage(assigned.value, contentType, i + 1)

getRelationsFromConfig(contentType) ==
  IF contentType.present
    THEN RelationsFromLanguage(<<>>, contentType, 1)
    ELSE Returned(<<>>)

(***************************************************************************)
(* getPages(config, contentType, id)                                       *)
(*                                                                         *)
(* config is the plugin's settings: excludeDrafts, and contentTypes, of    *)
(* which the entry of the queried type is contentTypeConfig.  meta is      *)
(* strapi.contentTypes[contentType], held by the paths getPages reads:     *)
(* options, options.draftAndPublish, pluginOptions, pluginOptions.i18n,    *)
(* pluginOptions.i18n.localized.  id is the empty set when the argument is *)
(* left out, {n} when page n is asked for.  An object of query operators   *)
(* is the set of its <<operator, value>> entries, {} being the object {}.  *)
(***************************************************************************)
PageIds == {0, 42}

IdArgs == {{}} \cup {{i} : i \in PageIds}

Metas ==
  {m \in [hasOptions : BOOLEAN, draftAndPublish : JSFlag,
          hasPluginOptions : BOOLEAN, hasI18n : BOOLEAN, localized : JSFlag] :
     /\ ~m.hasOptions => m.draftAndPublish = "undefined"
     /\ ~m.hasPluginOptions => ~m.hasI18n
     /\ ~m.hasI18n => m.localized = "undefined"}

\* config.excludeDrafts && strapi.contentTypes[contentType].options.draftAndPublish
ExcludeDrafts(excludeDrafts, meta) ==
  IF ~Truthy(excludeDrafts) THEN Returned(excludeDrafts)
  ELSE IF ~meta.hasOptions THEN Raised("TypeError")
  ELSE Returned(meta.draftAndPublish)

\* strapi.contentTypes[contentType].pluginOptions?.i18n?.localized
IsLocalized(meta) ==
  IF meta.hasPluginOptions /\ meta.hasI18n THEN meta.localized ELSE "undefined"

\* id ? {$eq: id} : {}   (0 is falsy)
IdClause(id) ==
  IF \E i \in id : i # 0 THEN {<<"$eq", i>> : i \in id} ELSE {}

\* excludeDrafts ? {$notNull: true} : {}
PublishedAtClause(excludeDrafts) ==
  IF Truthy(excludeDrafts) THEN {<<"$notNull", TRUE>>} ELSE {}

Filters(id, excludeDrafts) ==
  [or |-> <<[sitemap_exclude |-> {<<"$null", TRUE>>}],
            [sitemap_exclude |-> {<<"$eq", FALSE>>}]>>,
   id |-> IdClause(id),
   published_at |-> PublishedAtClause(excludeDrafts)]

\* populate: {localizations: {fields, populate: relations}, ...relations}
Populate(fields, relations) ==
  [k \in {"localizations"} \cup DOMAIN relations |->
     IF k \in DOMAIN relations THEN relations[k]
     ELSE [fields |-> fields, populate |-> relations]]

\* everything getPages computes before it awaits noLimit: the fetch
\* specification it hands over, or the error it ends with
PageQuery(excludeDraftsSetting, contentType, meta, id) ==
  LET excludeDrafts == ExcludeDrafts(excludeDraftsSetting, meta)
      isLocalized == IsLocalized(meta)
      relations == getRelationsFromConfig(contentType)
      fields == getFieldsFromConfig(contentType, TRUE, Truthy(isLocalized), NoRelation)
      filters == Filters(id, excludeDrafts.value)
  IN IF excludeDrafts.raised THEN excludeDrafts
     ELSE IF relations.raised THEN relations
     ELSE IF fields.raised THEN fields
     ELSE Returned([where |-> filters, filters |-> filters, locale |-> "all",
                    fields |-> fields.value,
                    populate |-> Populate(fields.value, relations.value),
                    orderBy |-> "id"])

(***************************************************************************)
(* Calls of the aggregation and of getPages on the configured type.        *)
(***************************************************************************)
NoCall == [fn |-> "none", args |-> <<>>, outcome |-> Returned(<<>>), fetch |-> {}]

\* faulty variant: the languages are taken off the configuration as they are read
CallGetFieldsFromConfig_consuming(topLevel, isLocalized, relation) ==
  /\ out = NoCall
  /\ out' = [fn |-> "getFieldsFromConfig",
             args |-> [topLevel |-> topLevel, isLocalized |-> isLocalized,
                       relation |-> relation],
             outcome |-> getFieldsFromConfig(contentTypeConfig, topLevel, isLocalized,
                                             relation),
             fetch |-> {}]
  /\ contentTypeConfig' = [contentTypeConfig EXCEPT !.languages = <<>>]
  /\ UNCHANGED storeVars

CallGetFieldsFromConfig(topLevel, isLocalized, relation) ==
  /\ out = NoCall
  /\ out' = [fn |-> "getFieldsFromConfig",
             args |-> [topLevel |-> topLevel, isLocalized |-> isLocalized,
                       relation |-> relation],
             outcome |-> getFieldsFromConfig(contentTypeConfig, topLevel, isLocalized,
                                             relation),
             fetch |-> {}]
  /\ UNCHANGED <<contentTypeConfig, storeVars>>

CallGetRelationsFromConfig ==
  /\ out = NoCall
  /\ out' = [fn |-> "getRelationsFromConfig", args |-> <<>>,
             outcome |-> getRelationsFromConfig(contentTypeConfig), fetch |-> {}]
  /\ UNCHANGED <<contentTypeConfig, storeVars>>

\* the fetch specification is handed to noLimit, whose pages are returned;
\* an error raised before that ends the call with nothing handed over
getPages(excludeDrafts, meta, id) ==
  /\ out = NoCall
  /\ LET query == PageQuery(excludeDrafts, contentTypeConfig, meta, id)
     IN out' = [fn |-> "getPages",
                args |-> [excludeDrafts |-> excludeDrafts, meta |-> meta, id |-> id],
                outcome |-> IF query.raised THEN query ELSE Returned(<<>>),
                fetch |-> IF query.raised THEN {} ELSE {query.value}]
  /\ UNCHANGED <<contentTypeConfig, storeVars>>

\* the caller takes the outcome; the next call may follow
TakeOutcome ==
  /\ out # NoCall
  /\ out' = NoCall
  /\ UNCHANGED <<contentTypeConfig, storeVars>>

(***************************************************************************)
(* The configurations of one content type: absent, or a languages mapping  *)
(* of at most two entries whose patterns hold at most MaxTokens            *)
(* placeholders together.                                                  *)
(***************************************************************************)
Absent == [present |-> FALSE, languages |-> <<>>]

Patterns == UNION {[1..n -> Tokens] : n \in 0..MaxTokens}

Language(code, pattern) == [langcode |-> code, pattern |-> pattern]

ContentTypeConfigs ==
  {Absent, [present |-> TRUE, languages |-> <<>>]}
  \cup {[present |-> TRUE, languages |-> <<Language("en", p)>>] : p \in Patterns}
  \cup {[present |-> TRUE, languages |-> <<Language("en", pq[1]), Language("fr", pq[2])>>] :
          pq \in {x \in Patterns \X Patterns : Len(x[1]) + Len(x[2]) <= MaxTokens}}

InitQuery ==
  /\ contentTypeConfig \in ContentTypeConfigs
  /\ out = NoCall

NextQuery ==
  \/ \E topLevel \in BOOLEAN, isLocalized \in BOOLEAN,
        relation \in {NoRelation} \cup RelationNames :
       CallGetFieldsFromConfig(topLevel, isLocalized, relation)
  \/ CallGetRelationsFromConfig
  \/ \E excludeDrafts \in ExcludeDraftsSettings, meta \in Metas, id \in IdArgs :
       getPages(excludeDrafts, meta, id)
  \/ TakeOutcome

(***************************************************************************)
(* Initial stores, empty or seeded: every key holds at most one record, as *)
(* the replace operations leave it; the ids are those the tables handed    *)
(* out before.                                                             *)
(***************************************************************************)
SeedSitemaps ==
  {[id |-> 1, name |-> "a", delta |-> 0, sitemap_string |-> "s0"],
   [id |-> 2, name |-> "a", delta |-> 1, sitemap_string |-> "s0"],
   [id |-> 3, name |-> "b", delta |-> 0, sitemap_string |-> "s0"]}

SeedCaches ==
  {[id |-> 1, name |-> "a", sitemap_json |-> "s0"],
   [id |-> 2, name |-> "b", sitemap_json |-> "s0"]}

InitStore ==
  /\ \E seeded \in BOOLEAN :
       /\ sitemaps = IF seeded THEN SeedSitemaps ELSE {}
       /\ caches = IF seeded THEN SeedCaches ELSE {}
  /\ sitemapSeq = Cardinality(SeedSitemaps)
  /\ cacheSeq = Cardinality(SeedCaches)
  /\ proc = [p \in Procs |-> Idle]
  /\ calls = 0

NextStore ==
  \E p \in Procs :
    \/ \E s \in Docs, n \in Names, d \in Deltas : createSitemap(p, s, n, d)
    \/ createSitemap_findMany(p)
    \/ createSitemap_delete(p)
    \/ createSitemap_create(p)
    \/ \E n \in Names, d \in Deltas : getSitemap(p, n, d)
    \/ getSitemap_findMany(p)
    \/ \E n \in Names : deleteSitemap(p, n)
    \/ deleteSitemap_findMany(p)
    \/ \E id \in proc[p].pending : deleteSitemap_delete(p, id)
    \/ deleteSitemap_all(p)
    \/ \E s \in Docs, n \in Names : createSitemapCache(p, s, n)
    \/ createSitemapCache_findMany(p)
    \/ createSitemapCache_delete(p)
    \/ createSitemapCache_create(p)
    \/ \E s \in Docs, n \in Names : updateSitemapCache(p, s, n)
    \/ updateSitemapCache_findMany(p)
    \/ updateSitemapCache_update(p)
    \/ \E n \in Names : getSitemapCache(p, n)
    \/ getSitemapCache_findMany(p)
    \/ StoreError(p)
    \/ \E id \in proc[p].pending : deleteSitemap_reject(p, id)
    \/ Return(p)

vars == <<storeVars, queryVars>>

\* no call of the aggregation has been made, on no configured type
QueryIdle == contentTypeConfig = Absent /\ out = NoCall

\* no persistence call is made, on an empty store
StoreIdle ==
  /\ sitemaps = {} /\ caches = {}
  /\ sitemapSeq = Cardinality(SeedSitemaps) /\ cacheSeq = Cardinality(SeedCaches)
  /\ proc = [p \in Procs |-> Idle] /\ calls = 0 /\ serial = TRUE /\ oneWriter = FALSE

Init == InitStore /\ serial = FALSE /\ oneWriter = FALSE /\ QueryIdle

InitSeq == InitStore /\ serial = TRUE /\ oneWriter = FALSE /\ QueryIdle

InitOneWriter == InitStore /\ serial = FALSE /\ oneWriter = TRUE /\ QueryIdle

InitAggregation == InitQuery /\ StoreIdle

\* the persistence handlers, running concurrently
Spec == Init /\ [][NextStore]_vars

\* the persistence handlers, each call settled before the next starts
SpecSeq == InitSeq /\ [][NextStore]_vars

\* the persistence handlers, reads running concurrently with one writing call
SpecOneWriter == InitOneWriter /\ [][NextStore]_vars

\* the aggregation and getPages on every configuration, the store left alone
SpecQuery == InitAggregation /\ [][NextQuery]_vars

(***************************************************************************)
(* Properties of the persistence handlers.                                 *)
(***************************************************************************)
Range(seq) == {seq[i] : i \in 1..Len(seq)}

IsPrefix(a, b) == Len(a) <= Len(b) /\ \A i \in 1..Len(a) : a[i] = b[i]

CallsOf(log) == [i \in 1..Len(log) |-> log[i].call]

IsReplace(p) == proc[p].op \in {"createSitemap", "createSitemapCache"}

\* C1: replace semantics of createSitemapCache.  With every call settled
\* before the next starts, and a store that began with at most one cache
\* record per name, no name ever holds two cache records, and when a
\* createSitemapCache(json, n) has completed the store holds exactly one cache
\* record for n, carrying the json of that (the last) call.
C1_ReplaceLeavesOneCache ==
  /\ \A n \in Names : Cardinality(FindCaches(n)) <= 1
  /\ \A p \in Procs :
       (proc[p].op = "createSitemapCache" /\ proc[p].pc = "done")
         => /\ Cardinality(FindCaches(proc[p].name)) = 1
            /\ \A r \in FindCaches(proc[p].name) : r.sitemap_json = proc[p].data

\* the second of two createSitemapCache calls for "a" on an empty store has
\* completed: the first call's record is gone, the second call's record is there
C1_Witness ==
  /\ serial
  /\ calls = 2
  /\ cacheSeq = Cardinality(SeedCaches) + 2
  /\ \E p \in Procs :
       /\ proc[p].op = "createSitemapCache" /\ proc[p].pc = "done"
       /\ proc[p].name = "a"
       /\ Len(proc[p].log) = 3
       /\ caches = {[id |-> cacheSeq, name |-> "a", sitemap_json |-> proc[p].data]}

\* C2: replace operations are sequenced per key.  When two createSitemap
\* calls for the same (name, delta), or two createSitemapCache calls for the
\* same name, were in flight together and both have completed, the store holds
\* exactly one record for that key.
C2_SequencedPerKey ==
  \A p, q \in Procs :
    (p # q /\ proc[p].pc = "done" /\ proc[q].pc = "done"
       /\ proc[p].op = proc[q].op /\ proc[p].name = proc[q].name)
      => /\ (proc[p].op = "createSitemapCache")
              => Cardinality(FindCaches(proc[p].name)) = 1
         /\ (proc[p].op = "createSitemap" /\ proc[p].delta = proc[q].delta)
              => Cardinality(FindSitemaps(proc[p].name, proc[p].delta)) = 1

\* C3: the store calls of one createSitemap or createSitemapCache call.  They
\* are issued in the order findMany, delete, create or findMany, create, each
\* after the one before it has completed; the delete is there exactly when the
\* lookup found a record, and it targets an id of the call's own lookup; a call
\* that has completed has issued exactly one create and at most one delete.
C3_ReplaceStepOrder ==
  \A p \in Procs :
    IsReplace(p) =>
      LET log == proc[p].log
          c == CallsOf(log)
          found == IF log = <<>> THEN {} ELSE log[1].ids
      IN /\ \/ IsPrefix(c, <<"findMany", "delete", "create">>)
            \/ IsPrefix(c, <<"findMany", "create">>)
         /\ \A i \in 1..Len(log) : i < Len(log) => log[i].ok
         /\ \A i \in 1..Len(log) :
              c[i] = "delete" => /\ Cardinality(log[i].ids) = 1
                                 /\ log[i].ids \subseteq found
         /\ \A i \in 1..Len(log) :
              c[i] = "create" => (found # {} <=> (i = 3 /\ c[2] = "delete"))
         /\ proc[p].pc = "done"
              => /\ Cardinality({i \in 1..Len(log) : c[i] = "create" /\ log[i].ok}) = 1
                 /\ Cardinality({i \in 1..Len(log) : c[i] = "delete"}) <= 1
                 /\ log[Len(log)].call = "create"

\* a createSitemap that found a stale record has deleted it and created the
\* new one, while another call is in flight
C3_Witness ==
  \E p, q \in Procs :
    /\ proc[p].op = "createSitemap" /\ proc[p].pc = "done"
    /\ CallsOf(proc[p].log) = <<"findMany", "delete", "create">>
    /\ proc[p].log[2].ids = proc[p].found
    /\ q # p /\ proc[q].pc \notin {"idle", "done", "failed"}

(***************************************************************************)
(* Properties of the aggregation and of getPages.                          *)
(***************************************************************************)
NoRepeats(seq) == \A i, j \in 1..Len(seq) : i # j => seq[i] # seq[j]

Reverse(seq) == [i \in 1..Len(seq) |-> seq[Len(seq) + 1 - i]]

FieldsReturned == out.fn = "getFieldsFromConfig" /\ ~out.outcome.raised

RelationsReturned == out.fn = "getRelationsFromConfig" /\ ~out.outcome.raised

PatternsOf(contentType) ==
  {contentType.languages[i].pattern : i \in 1..Len(contentType.languages)}

\* what the extractor yields over all the languages, scoped to a relation or not
PatternFields(contentType, relation) ==
  UNION {Range(getFieldsFromPattern(pattern, FALSE, relation).value) :
           pattern \in PatternsOf(contentType)}

\* the relation names the extractor yields for at least one language
PatternRelations(contentType) ==
  UNION {Range(getRelationsFromPattern(pattern).value) :
           pattern \in PatternsOf(contentType)}

PartialConfig == ~contentTypeConfig.present \/ contentTypeConfig.languages = <<>>

\* C4: dedup.  The sequence getFieldsFromConfig returns holds no value
\* twice, whatever the config and the topLevel, isLocalized and relation
\* arguments.
C4_NoDuplicateFields ==
  FieldsReturned => NoRepeats(out.outcome.value)

\* two languages whose patterns both reference updatedAt, asked for top-level
\* fields: updatedAt is pushed three times and returned once
C4_Witness ==
  /\ FieldsReturned
  /\ out.args.topLevel /\ out.args.relation = NoRelation
  /\ Len(contentTypeConfig.languages) = 2
  /\ PatternsOf(contentTypeConfig) = {<<<<"updatedAt">>>>}
  /\ out.outcome.value = <<"updatedAt">>

\* C5: metadata fields.  A list returned with topLevel = TRUE contains
\* updatedAt, and locale whenever isLocalized; with topLevel = FALSE nothing is
\* added: the list holds only fields the extractor yields for the patterns, and
\* so does every relation's list in getRelationsFromConfig.
C5_MetadataFields ==
  /\ (FieldsReturned /\ out.args.topLevel)
       => /\ "updatedAt" \in Range(out.outcome.value)
          /\ out.args.isLocalized => "locale" \in Range(out.outcome.value)
  /\ (FieldsReturned /\ ~out.args.topLevel)
       => Range(out.outcome.value)
            \subseteq PatternFields(contentTypeConfig, out.args.relation)
  /\ RelationsReturned
       => \A r \in DOMAIN out.outcome.value :
            Range(out.outcome.value[r].fields) \subseteq PatternFields(contentTypeConfig, r)

\* a localized type whose only pattern references title alone
C5_Witness ==
  /\ FieldsReturned
  /\ out.args.topLevel /\ out.args.isLocalized
  /\ PatternsOf(contentTypeConfig) = {<<<<"title">>>>}
  /\ out.outcome.value = <<"title", "locale", "updatedAt">>

\* C6 as claimed: on an absent config, or one with no languages,
\* getFieldsFromConfig returns the empty sequence and getRelationsFromConfig the
\* empty mapping, neither raising.
C6_EmptyOnPartialConfig ==
  PartialConfig =>
    /\ out.fn = "getFieldsFromConfig"
         => ~out.outcome.raised /\ out.outcome.value = <<>>
    /\ out.fn = "getRelationsFromConfig"
         => ~out.outcome.raised /\ DOMAIN out.outcome.value = {}

\* C6 as amended: on an absent config, or one whose languages mapping is
\* empty, neither function raises; getFieldsFromConfig returns the empty
\* sequence when topLevel is false and exactly the metadata fields when it is
\* true (updatedAt, after locale when isLocalized); getRelationsFromConfig
\* returns the empty mapping.
C6_TotalOnPartialConfig ==
  PartialConfig =>
    /\ out.fn = "getFieldsFromConfig"
         => /\ ~out.outcome.raised
            /\ out.outcome.value =
                 IF ~out.args.topLevel THEN <<>>
                 ELSE IF out.args.isLocalized THEN <<"locale", "updatedAt">>
                 ELSE <<"updatedAt">>
    /\ out.fn = "getRelationsFromConfig"
         => ~out.outcome.raised /\ DOMAIN out.outcome.value = {}

\* the top-level fields of a localized type with no config
C6_Witness ==
  /\ ~contentTypeConfig.present
  /\ FieldsReturned
  /\ out.args.topLevel /\ out.args.isLocalized
  /\ out.outcome.value = <<"locale", "updatedAt">>

\* C7: relation field completeness.  The fields stored under a relation r
\* are, without repetition, the fields the extractor yields scoped to r over all
\* the languages of the config, and the same fields are stored under the same
\* relations when the languages come in the reverse order.
C7_RelationFieldsComplete ==
  RelationsReturned =>
    LET relations == out.outcome.value
        reversed == getRelationsFromConfig(
                      [contentTypeConfig EXCEPT !.languages = Reverse(@)])
    IN /\ \A r \in DOMAIN relations :
            /\ Range(relations[r].fields) = PatternFields(contentTypeConfig, r)
            /\ NoRepeats(relations[r].fields)
       /\ ~reversed.raised
       /\ DOMAIN reversed.value = DOMAIN relations
       /\ \A r \in DOMAIN relations :
            Range(reversed.value[r].fields) = Range(relations[r].fields)

\* category is referenced by name in one language and by author.name in the
\* other
C7_Witness ==
  /\ RelationsReturned
  /\ Len(contentTypeConfig.languages) = 2
  /\ contentTypeConfig.languages[1].pattern = <<<<"category", "name">>>>
  /\ contentTypeConfig.languages[2].pattern = <<<<"category", "author", "name">>>>
  /\ DOMAIN out.outcome.value = {"category"}
  /\ out.outcome.value["category"].fields = <<"name", "author.name">>

\* C8: relation key soundness.  The keys of the mapping are exactly the
\* relation names the extractor yields for at least one language's pattern; a
\* config whose placeholders all have a single segment yields the empty mapping.
C8_RelationKeys ==
  RelationsReturned =>
    /\ DOMAIN out.outcome.value = PatternRelations(contentTypeConfig)
    /\ (\A pattern \in PatternsOf(contentTypeConfig) :
          \A token \in Range(pattern) : Len(token) = 1)
         => DOMAIN out.outcome.value = {}

\* the relation is referenced in the second language only
C8_Witness ==
  /\ RelationsReturned
  /\ Len(contentTypeConfig.languages) = 2
  /\ contentTypeConfig.languages[1].pattern = <<<<"title">>>>
  /\ contentTypeConfig.languages[2].pattern = <<<<"category", "name">>>>
  /\ DOMAIN out.outcome.value = {"category"}

\* C9: page filter.  The filter handed to the store requires sitemap_exclude
\* null or false; it constrains id to the supplied value exactly when an id was
\* supplied; it requires published_at non-null exactly when excludeDrafts is set
\* and the type has draftAndPublish; a clause that does not apply is empty.
C9_PageFilter ==
  out.fn = "getPages" =>
    \A query \in out.fetch :
      /\ query.filters.or = <<[sitemap_exclude |-> {<<"$null", TRUE>>}],
                              [sitemap_exclude |-> {<<"$eq", FALSE>>}]>>
      /\ query.filters.id = {<<"$eq", i>> : i \in out.args.id}
      /\ query.filters.published_at =
           IF Truthy(out.args.excludeDrafts) /\ Truthy(out.args.meta.draftAndPublish)
             THEN {<<"$notNull", TRUE>>}
             ELSE {}
      /\ query.where = query.filters

\* C10: fail-open on missing metadata.  When the type's metadata lacks the
\* draftAndPublish flag or the localized flag, the object that would hold it
\* missing included, getPages does not raise on that account and takes the
\* flag as false: no published_at constraint, no locale field that no pattern
\* references.
C10_FailOpenOnMissingFlags ==
  out.fn = "getPages" =>
    /\ out.args.meta.draftAndPublish = "undefined"
         => /\ out.outcome.error # "TypeError"
            /\ \A query \in out.fetch : query.filters.published_at = {}
    /\ out.args.meta.localized = "undefined"
         => /\ out.outcome.error # "TypeError"
            /\ \A query \in out.fetch :
                 "locale" \in Range(query.fields)
                   => "locale" \in PatternFields(contentTypeConfig, NoRelation)

PagesFetched == IF out.fn = "getPages" THEN out.fetch ELSE {}

\* the i18n flag getPages reads from the metadata, as a boolean
LocalizedArg == Truthy(IsLocalized(out.args.meta))

\* C11: fetch specification shape.  The specification handed to the store has
\* locale 'all', the fields of getFieldsFromConfig(config, topLevel = true,
\* isLocalized), a populate entry for every relation key of
\* getRelationsFromConfig(config) holding that relation's field list, and a
\* populate.localizations entry whose fields are the same top-level fields and
\* whose populate is the same relation mapping.
C11_FetchSpecShape ==
  \A query \in PagesFetched :
    LET fields == getFieldsFromConfig(contentTypeConfig, TRUE, LocalizedArg, NoRelation)
        relations == getRelationsFromConfig(contentTypeConfig)
    IN /\ query.locale = "all"
       /\ query.fields = fields.value
       /\ \A r \in DOMAIN relations.value :
            /\ r \in DOMAIN query.populate
            /\ r # "localizations" => query.populate[r] = relations.value[r]
       /\ "localizations" \in DOMAIN query.populate
       /\ DOMAIN query.populate["localizations"] = {"fields", "populate"}
       /\ query.populate["localizations"].fields = fields.value
       /\ query.populate["localizations"].populate = relations.value

\* the positions of a handler's log at which a store call threw
FailedAt(log) == {i \in 1..Len(log) : ~log[i].ok}

\* C12: store errors propagate without retry.  When a store call of
\* createSitemap, createSitemapCache, updateSitemapCache, deleteSitemap,
\* getSitemap or getSitemapCache throws, the handler fails with that error (the
\* first one thrown), it issues no store call after the failure (the only calls
\* that settle later are the deletes deleteSitemap had issued together with the
\* one that threw), and no store call is issued twice by one invocation.
C12_StoreErrorsPropagate ==
  \A p \in Procs :
    LET log == proc[p].log
        failed == FailedAt(log)
        first == CHOOSE i \in failed : \A j \in failed : i <= j
    IN proc[p].op # "none" =>
         /\ (failed # {}) <=> (proc[p].pc = "failed")
         /\ (failed = {}) <=> (proc[p].error = {})
         /\ failed # {} => proc[p].error = {log[first]}
         /\ \A i \in failed, j \in 1..Len(log) :
              j > i => /\ proc[p].op = "deleteSitemap"
                       /\ log[i].call = "delete" /\ log[j].call = "delete"
                       /\ log[j].ids \subseteq proc[p].found
         /\ \A i, j \in 1..Len(log) :
              i # j => \/ log[i].call # log[j].call
                       \/ /\ proc[p].op = "deleteSitemap" /\ log[i].call = "delete"
                          /\ log[i].ids # log[j].ids

\* createSitemap failed at its delete, after its look-up had found the record,
\* which the store still holds
C12_Witness ==
  \E p \in Procs :
    /\ proc[p].op = "createSitemap" /\ proc[p].pc = "failed"
    /\ Len(proc[p].log) = 2 /\ proc[p].log[1].ids # {}
    /\ proc[p].log[2] = Thrown("delete", "any", proc[p].found)
    /\ proc[p].error = {proc[p].log[2]}
    /\ FindSitemaps(proc[p].name, proc[p].delta) # {}

\* deleteSitemap rejected by one delete while the other delete it had issued
\* still completed afterwards
C12_WitnessDeleteAll ==
  \E p \in Procs :
    /\ proc[p].op = "deleteSitemap" /\ proc[p].pc = "failed"
    /\ Len(proc[p].log) = 3 /\ ~proc[p].log[2].ok /\ proc[p].log[3].ok

\* some language of the configured type has a pattern the extractor rejects
MalformedConfig ==
  /\ contentTypeConfig.present
  /\ \E pattern \in PatternsOf(contentTypeConfig) : \E t \in Range(pattern) : IsMalformed(t)

AggregationStep ==
  out = NoCall /\ out'.fn \in {"getFieldsFromConfig", "getRelationsFromConfig"}

\* the function of the call recorded in o, run on the configuration contentType
RunAgain(o, contentType) ==
  IF o.fn = "getFieldsFromConfig"
    THEN getFieldsFromConfig(contentType, o.args.topLevel, o.args.isLocalized,
                             o.args.relation)
    ELSE getRelationsFromConfig(contentType)

OtherKeys(table, n, d) == {r \in table : ~(r.name = n /\ r.delta = d)}

\* C15: createSitemap replaces by full key.  With no other call interleaved
\* and a store of at most one record per key, no step of createSitemap(s, n, d)
\* changes a record of another key or a cache record, and when the call
\* completes exactly one record of key (n, d) exists and it holds s.
C15_ReplacesByFullKey ==
  [][\A p \in Procs :
       proc[p].op = "createSitemap" =>
         /\ OtherKeys(sitemaps', proc[p].name, proc[p].delta)
              = OtherKeys(sitemaps, proc[p].name, proc[p].delta)
         /\ caches' = caches
         /\ proc'[p].pc = "done" =>
              /\ Cardinality({r \in sitemaps' :
                                r.name = proc[p].name /\ r.delta = proc[p].delta}) = 1
              /\ \A r \in sitemaps' :
                   (r.name = proc[p].name /\ r.delta = proc[p].delta)
                     => r.sitemap_string = proc[p].data]_vars

\* createSitemap("s1", "a", 0) has completed on the seeded store: the record of
\* (a, 0) is a new one holding s1, those of (a, 1) and (b, 0) are the seeded ones
C15_Witness ==
  \E p \in Procs :
    /\ proc[p].op = "createSitemap" /\ proc[p].pc = "done"
    /\ proc[p].name = "a" /\ proc[p].delta = 0 /\ proc[p].data = "s1"
    /\ Len(proc[p].log) = 3
    /\ sitemaps = OtherKeys(SeedSitemaps, "a", 0)
                    \cup {[id |-> 4, name |-> "a", delta |-> 0, sitemap_string |-> "s1"]}

\* the sitemap records of a table whose name is not n
OtherNames(table, n) == {r \in table : r.name # n}

\* C16: deleteSitemap(n) removes every delta of n and nothing else.  With no
\* concurrent writer, no step of deleteSitemap(n) changes a record of another
\* name or a cache record, and when the call completes no sitemap record of
\* name n exists and every delete it issued has completed.
C16_DeleteRemovesAllDeltas ==
  [][\A p \in Procs :
       proc[p].op = "deleteSitemap" =>
         /\ OtherNames(sitemaps', proc[p].name) = OtherNames(sitemaps, proc[p].name)
         /\ caches' = caches
         /\ proc'[p].pc = "done" =>
              /\ {r \in sitemaps' : r.name = proc[p].name} = {}
              /\ proc'[p].pending = {}
              /\ \A id \in proc'[p].found :
                   Entry("delete", "sitemap", {id}) \in Range(proc'[p].log)]_vars

\* deleteSitemap("a") has completed on the seeded store: both deltas of a are
\* gone after two deletes, the record of b is the seeded one
C16_Witness ==
  \E p \in Procs :
    /\ proc[p].op = "deleteSitemap" /\ proc[p].pc = "done" /\ proc[p].name = "a"
    /\ proc[p].found = {1, 2} /\ Len(proc[p].log) = 3
    /\ sitemaps = OtherNames(SeedSitemaps, "a")
    /\ sitemaps # {}

\* C17: updateSitemapCache never creates or deletes.  With no concurrent
\* writer, no step of updateSitemapCache(s, n) changes a sitemap record, the ids
\* of the cache records or a cache record of another name, and a cache record
\* it changes differs from the one of the same id before the step in its
\* sitemap_json alone, which becomes s.  When its look-up finds no record of n
\* the call completes there, without error and without a write.
C17_UpdateInPlace ==
  [][\A p \in Procs :
       proc[p].op = "updateSitemapCache" =>
         /\ sitemaps' = sitemaps /\ sitemapSeq' = sitemapSeq /\ cacheSeq' = cacheSeq
         /\ Ids(caches') = Ids(caches)
         /\ Cardinality(caches') = Cardinality(caches)
         /\ \A r \in caches' \ caches :
              /\ r.name = proc[p].name /\ r.sitemap_json = proc[p].data
              /\ \E old \in caches : old.id = r.id /\ old.name = r.name
         /\ (proc[p].pc = "findMany" /\ FindCaches(proc[p].name) = {}
               /\ proc'[p].pc # "failed")
              => proc'[p].pc = "done" /\ caches' = caches
         /\ (proc'[p].pc = "done" /\ proc[p].found # {})
              => \A r \in caches' : r.id \in proc[p].found
                                       => r.sitemap_json = proc[p].data]_vars

\* updateSitemapCache("s1", "a") has completed on the seeded store: the record
\* of a keeps its id and holds s1, the record of b is the seeded one
C17_Witness ==
  \E p \in Procs :
    /\ proc[p].op = "updateSitemapCache" /\ proc[p].pc = "done"
    /\ proc[p].name = "a" /\ proc[p].data = "s1" /\ Len(proc[p].log) = 2
    /\ caches = {[id |-> 1, name |-> "a", sitemap_json |-> "s1"],
                 [id |-> 2, name |-> "b", sitemap_json |-> "s0"]}

\* updateSitemapCache has completed on a store with no cache record of its
\* name: one look-up, no write, the store is still empty
C17_WitnessAbsent ==
  \E p \in Procs :
    /\ proc[p].op = "updateSitemapCache" /\ proc[p].pc = "done"
    /\ Len(proc[p].log) = 1 /\ proc[p].log[1].ids = {}
    /\ caches = {}

\* q reads the key that the call of p replaces
ReadsKeyOf(q, p) ==
  /\ q # p
  /\ \/ /\ proc[p].op = "createSitemap" /\ proc[q].op = "getSitemap"
        /\ proc[q].name = proc[p].name /\ proc[q].delta = proc[p].delta
     \/ /\ proc[p].op = "createSitemapCache" /\ proc[q].op = "getSitemapCache"
        /\ proc[q].name = proc[p].name

\* the look-up of the replacing call found a record of its key in the store
FoundStale(p) ==
  /\ proc[p].log # <<>>
  /\ proc[p].log[1].ok /\ proc[p].log[1].ids # {}

\* the step is the look-up of the read q, and it reports absence
ReportsAbsence(q) ==
  /\ proc[q].pc = "findMany"
  /\ proc'[q].pc = "done" /\ proc'[q].result = {}

\* the replacing call has deleted the stale record and has not created the new one
InGap(p) ==
  /\ \E i \in 1..Len(proc[p].log) : proc[p].log[i].call = "delete" /\ proc[p].log[i].ok
  /\ \A i \in 1..Len(proc[p].log) : ~(proc[p].log[i].call = "create" /\ proc[p].log[i].ok)

\* C18 (as stated): no visibility gap during replace.  When the look-up of a
\* createSitemap found a record of its key, a getSitemap of that key whose
\* look-up runs while the call is in flight never reports absence; likewise
\* getSitemapCache during createSitemapCache.
C18_NoVisibilityGap ==
  [][\A p, q \in Procs :
       (ReadsKeyOf(q, p) /\ FoundStale(p)) => ~ReportsAbsence(q)]_vars

\* C18 (amended): with no other writing call in flight, a read of the key
\* reports absence during a replace that found a record only when its look-up
\* runs after the delete of the replacing call has completed and before its
\* create has.
C18_AbsenceOnlyInGap ==
  [][\A p, q \in Procs :
       (ReadsKeyOf(q, p) /\ FoundStale(p) /\ ReportsAbsence(q)) => InGap(p)]_vars

\* getSitemap has reported absence of a key whose record createSitemap found and
\* deleted and has still to create
C18_Witness ==
  \E p, q \in Procs :
    /\ ReadsKeyOf(q, p) /\ FoundStale(p) /\ InGap(p)
    /\ proc[p].op = "createSitemap" /\ proc[p].pc = "create"
    /\ proc[q].pc = "done" /\ proc[q].result = {}
    /\ proc[q].log = <<Entry("findMany", "sitemap", {})>>

\* C19: the localizations populate entry is never displaced by a relation of
\* the patterns.  For every configuration, one whose pattern references a
\* relation named 'localizations' included, populate.localizations of the fetch
\* specification is the cross-locale entry {fields: the top-level fields,
\* populate: the relations} and not the field list scoped to that relation.
C19_LocalizationsKept ==
  \A query \in PagesFetched :
    LET relations == getRelationsFromConfig(contentTypeConfig).value
    IN query.populate["localizations"] = [fields |-> query.fields, populate |-> relations]
====
